---- MODULE Spec2Model ----
(***************************************************************************)
(* ConstraintSolverJs: rigid bodies in the plane, rotational and fixed     *)
(* constraints, the World that assembles the residual function and the     *)
(* Newton-Raphson Solver.                                                  *)
(*                                                                         *)
(* Numbers are modelled on an integer grid: positions are integers,        *)
(* angles are counted in quarter turns (so cos and sin are exact), and the *)
(* Solver is constructed with stopError = StopError in grid units.  The    *)
(* floating point linear algebra of mathjs (inv, multiply, add) is not     *)
(* part of the repository: a Newton step h = inv(J) * (-y) is any vector   *)
(* of the grid, and the zero vector when y is zero.                        *)
(***************************************************************************)
EXTENDS Integers, Sequences, FiniteSets, TLC

VARIABLES
    heap,       \* the caller's Body objects: body (= its id) -> [x, y, theta]
    rcs,        \* the caller's array of RotConstraint objects (World.rotConstraints)
    fcs,        \* the caller's array of FixedConstraint objects (World.fixConstraints)
    built,      \* a World object exists (its constructor returned)
    bodies,     \* World.bodies: the registry, ids in key insertion order
    bodiesLst,  \* World.bodiesLst
    dof,        \* World.dof
    indices,    \* World.indices: body id -> [x, y, theta] slots
    x0,         \* World.x0
    call,       \* the operation the caller invoked last, with its arguments
    thrown,     \* what that operation threw ("none": it returned normally)
    wpc,        \* World.solve: "idle", or "solving" while the Solver runs
    pre,        \* the heap as it was when the last World.solve was entered
    sets,       \* pose fields the caller has overwritten so far
    f,          \* Solver: the residual function being solved
    x,          \* Solver: the local vector x
    argX,       \* Solver: the Matrix object the caller passed in
    xInit,      \* Solver: the entries that object had when solve was called
    aliased,    \* Solver: x still is the caller's object
    error,      \* Solver: error
    iter,       \* Solver: iter
    now,        \* Solver: Date.now() - initialTime
    selIndices, \* Solver: selIndices
    maxIterations, \* Solver.maxIterations
    timeOut,    \* Solver.timeOut
    pc,         \* Solver: position in solve
    sol,        \* Solver: the SolverSolution returned, or NoSolution
    jacobians,  \* Solver: a Jacobian has been computed in this call
    updates,    \* Solver: Newton updates applied to x in this call
    selJ,       \* a Jacobian handed to a selection of variables on its own
    selOut      \* what that selection returned

worldVars == <<built, bodies, bodiesLst, dof, indices, x0>>
callerVars == <<heap, rcs, fcs, call, thrown>>
solverVars == <<f, x, argX, xInit, aliased, error, iter, now, selIndices, maxIterations,
                timeOut, pc, sol, jacobians, updates>>
selectVars == <<selJ, selOut>>
vars == <<callerVars, worldVars, wpc, pre, sets, solverVars, selectVars>>

----------------------------------------------------------------------------
(* Bounds of the model *)

NBodies == 2        \* Body objects the caller owns, ids 1..NBodies
MaxRot == 2         \* rotational constraints built in one run
MaxFix == 2         \* fixed constraints built in one run
MaxVal == 1         \* pose scalars and vector entries range over 0..MaxVal
MaxIter == 2        \* largest maxIterations a Solver is constructed with
MaxSets == 1        \* pose fields the caller overwrites between solves
IterCap == 11       \* iter and updates are counted exactly up to IterCap
MaxN == 2           \* longest vector handed to a function that reads fewer entries
MaxTimeOut == 1     \* largest timeOut (ms) a Solver is constructed with
MaxDim == 3         \* most rows and columns of a Jacobian handed to a selection
StopError == 2      \* the stopError every Solver is constructed with

Bodies == 1..NBodies
Vals == 0..MaxVal
Origin == <<0, 0>>

----------------------------------------------------------------------------
(* Vectors (mathjs column matrices): sequences, read and written through  *)
(* the 0-based indices of the source                                        *)

Size(v) == Len(v)

\* v.get([i, 0])
Get(v, i) == v[i + 1]

RECURSIVE Zeros(_)
Zeros(k) == IF k <= 0 THEN <<>> ELSE Append(Zeros(k - 1), 0)

Abs(a) == IF a < 0 THEN -a ELSE a

\* Matrix.set([i, 0], val): a write past the end grows the matrix, new entries 0
MatSet(v, i, val) ==
    IF i < Size(v) THEN [v EXCEPT ![i + 1] = val]
    ELSE Append(v \o Zeros(i - Size(v)), val)

\* x.subset(index(range(0, k), 0))
Subset(v, k) == SubSeq(v, 1, k)

----------------------------------------------------------------------------
(* Errors and results *)

NoError == [name |-> "none", errors |-> <<>>, msg |-> "none"]

PlainError(m) == [name |-> "Error", errors |-> <<>>, msg |-> m]

WorldSetupError(errs) == [name |-> "WorldSetupError", errors |-> errs, msg |-> "setup"]

UnableToSolveError(m) == [name |-> "UnableToSolveError", errors |-> <<>>, msg |-> m]

SelfMsg(id) == [kind |-> "self", n |-> id]

OverMsg(d) == [kind |-> "over", n |-> d]

NoCall == [op |-> "none", a |-> 0, b |-> 0]

----------------------------------------------------------------------------
(* Body, RotConstraint, FixedConstraint *)

Body(px, py, pt) == [x |-> px, y |-> py, theta |-> pt]

\* a constructor without the check, as the variant in src/unnamed/part_000
RotCtorNeverThrows(a, b) == FALSE

\* RotConstraint.constructor: throws on a body constrained to itself
RotCtorThrows(a, b) == a = b

RotConstraint(a, anchA, b, anchB) ==
    [bodyA |-> a, anchorA |-> anchA, bodyB |-> b, anchorB |-> anchB]

\* FixedConstraint.constructor: the target is the body's pose now
FixedConstraint(h, b) ==
    [body |-> b, x |-> h[b].x, y |-> h[b].y, theta |-> h[b].theta]

----------------------------------------------------------------------------
(* World construction *)

\* this.bodies[id] = body
DictPut(d, id) == IF \E i \in 1..Len(d) : d[i] = id THEN d ELSE Append(d, id)

RECURSIVE LoadRot(_, _, _)
LoadRot(rs, d, errs) ==
    IF rs = <<>> THEN [bodies |-> d, errors |-> errs]
    ELSE LET rc == Head(rs)
             e == IF rc.bodyA = rc.bodyB THEN Append(errs, SelfMsg(rc.bodyA)) ELSE errs
         IN LoadRot(Tail(rs), DictPut(DictPut(d, rc.bodyA), rc.bodyB), e)

RECURSIVE LoadFix(_, _)
LoadFix(fs, d) ==
    IF fs = <<>> THEN d ELSE LoadFix(Tail(fs), DictPut(d, Head(fs).body))

loadBodies(rs, fs) ==
    LET r == LoadRot(rs, <<>>, <<>>)
    IN [bodies |-> LoadFix(fs, r.bodies), errors |-> r.errors]

\* a fixed constraint counted as removing two degrees of freedom
degOfFreedomNoFixed(b, r, fx) == 3 * b - 2 * r - 2 * fx

degOfFreedom(b, r, fx) == 3 * b - 2 * r - 3 * fx

validateDegsOfFreedom(rs, fs, d, errs) ==
    LET v == degOfFreedom(Len(d), Len(rs), Len(fs))
    IN [dof |-> v, errors |-> IF v < 0 THEN Append(errs, OverMsg(v)) ELSE errs]

\* a constructor that reports only the first problem it meets
WorldCtorFirstError(rs, fs) ==
    LET lb == loadBodies(rs, fs)
        vd == validateDegsOfFreedom(rs, fs, lb.bodies, lb.errors)
    IN [bodies |-> lb.bodies, x0 |-> Zeros(3 * Len(lb.bodies)), dof |-> vd.dof,
        errors |-> IF lb.errors # <<>> THEN <<Head(lb.errors)>> ELSE vd.errors]

\* World.constructor: the World it builds, or the error list it throws
WorldCtor(rs, fs) ==
    LET lb == loadBodies(rs, fs)
        vd == validateDegsOfFreedom(rs, fs, lb.bodies, lb.errors)
    IN [bodies |-> lb.bodies, x0 |-> Zeros(3 * Len(lb.bodies)), dof |-> vd.dof,
        errors |-> vd.errors]

----------------------------------------------------------------------------
(* Vector algebra and frame transforms; angles in quarter turns *)

Cos(a) == CASE a % 4 = 0 -> 1 [] a % 4 = 1 -> 0 [] a % 4 = 2 -> -1 [] OTHER -> 0

Sin(a) == CASE a % 4 = 0 -> 0 [] a % 4 = 1 -> 1 [] a % 4 = 2 -> 0 [] OTHER -> -1

rotateVector(v, angle) ==
    <<Cos(angle) * v[1] - Sin(angle) * v[2], Sin(angle) * v[1] + Cos(angle) * v[2]>>

addVectors(va, vb) == <<va[1] + vb[1], va[2] + vb[2]>>

substractVectors(va, vb) == <<va[1] - vb[1], va[2] - vb[2]>>

relativeToGlobalPos(relPos, relCordOrigin, relCordRot) ==
    addVectors(rotateVector(relPos, relCordRot), relCordOrigin)

\* RotConstraint.f
RotF(rc, xa, ya, thetaA, xb, yb, thetaB) ==
    substractVectors(relativeToGlobalPos(rc.anchorA, <<xa, ya>>, thetaA),
                     relativeToGlobalPos(rc.anchorB, <<xb, yb>>, thetaB))

\* FixedConstraint.f
FixF(fc, px, py, pt) == <<px - fc.x, py - fc.y, pt - fc.theta>>

----------------------------------------------------------------------------
(* The World's residual function *)

\* World.getBodyPosition: a slot past the end of xVec is read from this.x0
getBodyPosition(ind, x0v, xVec, id) ==
    LET maxIndex == Size(xVec) - 1
        at(k) == IF k > maxIndex THEN Get(x0v, k) ELSE Get(xVec, k)
    IN [x |-> at(ind[id].x), y |-> at(ind[id].y), theta |-> at(ind[id].theta)]

rotConstraintF(rc, ind, x0v, xVec) ==
    LET pa == getBodyPosition(ind, x0v, xVec, rc.bodyA)
        pb == getBodyPosition(ind, x0v, xVec, rc.bodyB)
    IN RotF(rc, pa.x, pa.y, pa.theta, pb.x, pb.y, pb.theta)

fixConstraintF(fc, ind, x0v, xVec) ==
    LET p == getBodyPosition(ind, x0v, xVec, fc.body)
    IN FixF(fc, p.x, p.y, p.theta)

RECURSIVE FillRot(_, _, _, _, _, _)
FillRot(rs, k, y, ind, x0v, xVec) ==
    IF k > Len(rs) THEN y
    ELSE LET res == rotConstraintF(rs[k], ind, x0v, xVec)
             i == 2 * (k - 1)
         IN FillRot(rs, k + 1, MatSet(MatSet(y, i, res[1]), i + 1, res[2]),
                    ind, x0v, xVec)

RECURSIVE FillFix(_, _, _, _, _, _, _)
FillFix(fs, k, base, y, ind, x0v, xVec) ==
    IF k > Len(fs) THEN y
    ELSE LET res == fixConstraintF(fs[k], ind, x0v, xVec)
             i == base + 3 * (k - 1)
         IN FillFix(fs, k + 1, base,
                    MatSet(MatSet(MatSet(y, i, res[1]), i + 1, res[2]), i + 2, res[3]),
                    ind, x0v, xVec)

\* a residual that keeps only the rows allocated at the start
WorldFAllocatedRows(rs, fs, ind, x0v, xVec) ==
    LET n == Len(rs) * 2 + Len(fs) * 2
        y == FillRot(rs, 1, Zeros(n), ind, x0v, xVec)
    IN Subset(FillFix(fs, 1, 2 * Len(rs), y, ind, x0v, xVec), n)

\* World.f
WorldF(rs, fs, ind, x0v, xVec) ==
    LET n == Len(rs) * 2 + Len(fs) * 2
        y == FillRot(rs, 1, Zeros(n), ind, x0v, xVec)
    IN FillFix(fs, 1, 2 * Len(rs), y, ind, x0v, xVec)

----------------------------------------------------------------------------
(* Numerical Jacobian, determinant, error *)

\* residual functions handed to Solver.solve directly, besides World.f
Fns == {"sq1", "two", "par", "ramp", "pair"}

\* the entries of x a function reads
Arity(fid) == IF fid = "pair" THEN 3 ELSE IF fid \in {"par", "ramp"} THEN 2 ELSE 1

\* the lengths of the vectors a function is called with
Lengths(fid) == {Arity(fid)} \cup {n \in 1..MaxN : n >= Arity(fid)}

\* the initial vectors of length n a caller passes: every entry the same
Starts(n) == {[j \in 1..n |-> v] : v \in Vals}

\* f(xVec), for World.f with this.indices = ind and this.x0 = x0v
Residual(fid, ind, x0v, xVec) ==
    CASE fid = "world" -> WorldF(rcs, fcs, ind, x0v, xVec)
      [] fid = "sq1" -> <<Get(xVec, 0) * Get(xVec, 0) + 1>>
      [] fid = "two" -> <<Get(xVec, 0), Get(xVec, 0) - 1>>
      [] fid = "pair" -> <<Get(xVec, 0) + Get(xVec, 1) + Get(xVec, 2) - 1,
                           Get(xVec, 0) + Get(xVec, 1) + 2 * Get(xVec, 2) - 1>>
      [] fid = "ramp" -> <<2 * (IF Get(xVec, 0) > 1 THEN Get(xVec, 0) - 1 ELSE 0)
                             + 2 * Get(xVec, 1)>>
      [] OTHER -> <<Get(xVec, 0) * (Get(xVec, 0) - 1)
                      + Get(xVec, 1) * (Get(xVec, 1) - 1) + 2>>

RECURSIVE JacobianColumns(_, _, _, _, _)
JacobianColumns(fid, ind, x0v, xVec, j) ==
    IF j >= Size(xVec) THEN <<>>
    ELSE <<Residual(fid, ind, x0v, [xVec EXCEPT ![j + 1] = @ + 1])>>
             \o JacobianColumns(fid, ind, x0v, xVec, j + 1)

RECURSIVE JacobianRow(_, _, _, _)
JacobianRow(cols, y, i, j) ==
    IF j >= Len(cols) THEN <<>>
    ELSE <<Get(cols[j + 1], i) - Get(y, i)>> \o JacobianRow(cols, y, i, j + 1)

RECURSIVE JacobianRows(_, _, _)
JacobianRows(cols, y, i) ==
    IF i >= Size(y) THEN <<>>
    ELSE <<JacobianRow(cols, y, i, 0)>> \o JacobianRows(cols, y, i + 1)

\* Differentiator.jacobian with delta = 1: forward differences, column by
\* column; J[i][j] is Get(Get(J, i), j)
Jacobian(fid, ind, x0v, xVec) ==
    JacobianRows(JacobianColumns(fid, ind, x0v, xVec, 0),
                 Residual(fid, ind, x0v, xVec), 0)

RemoveAt(sq, k) == [i \in 1..(Len(sq) - 1) |-> IF i < k THEN sq[i] ELSE sq[i + 1]]

RECURSIVE DetRC(_, _, _)
RECURSIVE DetRow(_, _, _, _)
DetRow(M, rs, cs, k) ==
    IF k > Len(cs) THEN 0
    ELSE (IF k % 2 = 1 THEN 1 ELSE -1) * Get(Get(M, Head(rs)), cs[k])
             * DetRC(M, Tail(rs), RemoveAt(cs, k))
         + DetRow(M, rs, cs, k + 1)

\* determinant of the rows rs and columns cs of M (expansion along the first row)
DetRC(M, rs, cs) == IF rs = <<>> THEN 1 ELSE DetRow(M, rs, cs, 1)

RECURSIVE UpTo(_)
UpTo(k) == IF k <= 0 THEN <<>> ELSE Append(UpTo(k - 1), k - 1)

\* inv(M) throws exactly when the determinant is zero
InvThrows(M, cols) == DetRC(M, UpTo(Size(M)), cols) = 0

\* max(abs(y))
MaxAbs(y) == CHOOSE v \in {Abs(y[i]) : i \in DOMAIN y} :
                 \A i \in DOMAIN y : Abs(y[i]) <= v

IsZero(y) == \A i \in DOMAIN y : y[i] = 0

----------------------------------------------------------------------------
(* Variable selection *)

\* sumRows(abs(sign(J))): the number of nonzero entries of row i
RowSum(J, i) == Cardinality({j \in 0..(Size(Get(J, i)) - 1) : Get(Get(J, i), j) # 0})

\* rowSums.sort((a, b) => a.sum - b.sum): ascending, stable
SortedRows(J) ==
    LET rows == 0..(Size(J) - 1)
        sums == [i \in rows |-> RowSum(J, i)]
        Rank(i) == Cardinality({k \in rows :
                        \/ sums[k] < sums[i]
                        \/ (sums[k] = sums[i] /\ k < i)})
    IN [p \in 1..Size(J) |-> CHOOSE i \in rows : Rank(i) = p - 1]

\* a test that forgets which columns are claimed
EligibleIgnoresClaimed(J, i, selected) ==
    {j \in 0..(Size(Get(J, i)) - 1) : Abs(Get(Get(J, i), j)) > 0}

Eligible(J, i, selected) ==
    {j \in 0..(Size(Get(J, i)) - 1) : Abs(Get(Get(J, i), j)) > 0 /\ j \notin selected}

MinOf(S) == CHOOSE v \in S : \A w \in S : v <= w

RECURSIVE WorldSelect(_, _, _, _)
WorldSelect(J, order, k, selected) ==
    IF k > Len(order) THEN [ok |-> TRUE, selected |-> selected]
    ELSE LET elig == Eligible(J, order[k], selected)
         IN IF elig = {} THEN [ok |-> FALSE, selected |-> selected]
            ELSE WorldSelect(J, order, k + 1, selected \cup {MinOf(elig)})

\* World.selectSolverVariableIndices: the lowest eligible column of each row
selectSolverVariableIndices(J) == WorldSelect(J, SortedRows(J), 1, {})

RECURSIVE SolverSelect(_, _, _, _)
SolverSelect(J, order, k, selected) ==
    IF k > Len(order) THEN {[ok |-> TRUE, selected |-> selected]}
    ELSE LET elig == Eligible(J, order[k], selected)
         IN IF elig = {} THEN {[ok |-> FALSE, selected |-> selected]}
            ELSE UNION {SolverSelect(J, order, k + 1, selected \cup {j}) : j \in elig}

RECURSIVE SortedSeq(_)
SortedSeq(S) == IF S = {} THEN <<>> ELSE <<MinOf(S)>> \o SortedSeq(S \ {MinOf(S)})

----------------------------------------------------------------------------
(* World.solve: slots *)

SeqRange(sq) == {sq[i] : i \in 1..Len(sq)}

IndexOf(sq, v) == CHOOSE i \in 1..Len(sq) : sq[i] = v

RECURSIVE FillInitial(_, _, _, _)
FillInitial(h, ids, k, x0v) ==
    IF k > Len(ids) THEN x0v
    ELSE LET b == h[ids[k]]
             startIndex == 3 * (k - 1)
         IN FillInitial(h, ids, k + 1,
                MatSet(MatSet(MatSet(x0v, startIndex, b.x), startIndex + 1, b.y),
                       startIndex + 2, b.theta))

\* a load that keeps the x0 an earlier solve left behind
loadInitialKeepsCachedX0(h, ids, x0v) ==
    [ind |-> [id \in SeqRange(ids) |->
                 LET startIndex == 3 * (IndexOf(ids, id) - 1)
                 IN [x |-> startIndex, y |-> startIndex + 1, theta |-> startIndex + 2]],
     x0 |-> x0v]

\* World.loadInitialX0AndIndices: body i gets slots 3i, 3i+1, 3i+2
loadInitialX0AndIndices(h, ids, x0v) ==
    [ind |-> [id \in SeqRange(ids) |->
                 LET startIndex == 3 * (IndexOf(ids, id) - 1)
                 IN [x |-> startIndex, y |-> startIndex + 1, theta |-> startIndex + 2]],
     x0 |-> FillInitial(h, ids, 1, x0v)]

\* a placement with the two branches exchanged
PlaceFieldSwapped(st, id, fld, gIndex, val, selected) ==
    LET sel == gIndex \notin selected
        slot == IF sel THEN st.xVecIndex ELSE st.constIndex
    IN [ind |-> [st.ind EXCEPT ![id][fld] = slot],
        x0 |-> MatSet(st.x0, slot, val),
        xVecIndex |-> IF sel THEN st.xVecIndex + 1 ELSE st.xVecIndex,
        constIndex |-> IF sel THEN st.constIndex ELSE st.constIndex + 1]

PlaceField(st, id, fld, gIndex, val, selected) ==
    LET sel == gIndex \in selected
        slot == IF sel THEN st.xVecIndex ELSE st.constIndex
    IN [ind |-> [st.ind EXCEPT ![id][fld] = slot],
        x0 |-> MatSet(st.x0, slot, val),
        xVecIndex |-> IF sel THEN st.xVecIndex + 1 ELSE st.xVecIndex,
        constIndex |-> IF sel THEN st.constIndex ELSE st.constIndex + 1]

RECURSIVE PlaceBodies(_, _, _, _, _)
PlaceBodies(h, lst, k, selected, st) ==
    IF k > Len(lst) THEN st
    ELSE LET id == lst[k]
             bodyIndex == k - 1
             s1 == PlaceField(st, id, "x", bodyIndex * 3, h[id].x, selected)
             s2 == PlaceField(s1, id, "y", bodyIndex * 3 + 1, h[id].y, selected)
             s3 == PlaceField(s2, id, "theta", bodyIndex * 3 + 2, h[id].theta, selected)
         IN PlaceBodies(h, lst, k + 1, selected, s3)

\* a rearrangement that leaves every body on the slots 3i, 3i+1, 3i+2
loadIndicesKeepsInitialSlots(h, lst, ind, selected) ==
    [ind |-> ind, x0 |-> FillInitial(h, lst, 1, Zeros(Len(lst) * 3)),
     xVecIndex |-> Cardinality(selected), constIndex |-> Len(lst) * 3]

\* World.loadIndicesDictAndGetX0: selected scalars get slots 0.., the others
\* slots from x0Length on
loadIndicesDictAndGetX0(h, lst, ind, selected) ==
    LET x0Length == Len(lst) * 3
    IN PlaceBodies(h, lst, 1, selected,
           [ind |-> ind, x0 |-> Zeros(x0Length), xVecIndex |-> 0,
            constIndex |-> x0Length])

\* a write-back that leaves the body as it is
setBodyPositionKeepsBody(solVec, ind, b, id) == b

\* World.setBodyPosition
setBodyPosition(solVec, ind, b, id) ==
    LET maxIndex == Size(solVec) - 1
    IN [x |-> IF ind[id].x <= maxIndex THEN Get(solVec, ind[id].x) ELSE b.x,
        y |-> IF ind[id].y <= maxIndex THEN Get(solVec, ind[id].y) ELSE b.y,
        theta |-> IF ind[id].theta <= maxIndex THEN Get(solVec, ind[id].theta)
                  ELSE b.theta]

\* this.bodiesLst.forEach((body) => this.setBodyPosition(sol.getX(), body))
UpdateBodies(h, solVec, ind, lst) ==
    [b \in DOMAIN h |->
        IF b \in SeqRange(lst) THEN setBodyPosition(solVec, ind, h[b], b) ELSE h[b]]

----------------------------------------------------------------------------
(* Initial values shared by the specifications *)

NoSolution == [x |-> <<>>, solved |-> FALSE, msg |-> "none"]

Infinity == 1000000

SolverIdle ==
    /\ f = "none" /\ x = <<>> /\ argX = <<>> /\ xInit = <<>> /\ aliased = FALSE
    /\ error = Infinity /\ iter = 0 /\ now = 0 /\ selIndices = <<>>
    /\ maxIterations = 0 /\ timeOut = 0 /\ pc = "idle" /\ sol = NoSolution
    /\ jacobians = FALSE /\ updates = 0

\* no call of a Solver is in progress or has been made
NoSolverCall ==
    /\ f' = "none" /\ x' = <<>> /\ argX' = <<>> /\ xInit' = <<>> /\ aliased' = FALSE
    /\ error' = Infinity /\ iter' = 0 /\ now' = 0 /\ selIndices' = <<>>
    /\ maxIterations' = 0 /\ timeOut' = 0 /\ pc' = "idle" /\ sol' = NoSolution
    /\ jacobians' = FALSE /\ updates' = 0

NoWorld ==
    /\ built = FALSE /\ bodies = <<>> /\ bodiesLst = <<>> /\ dof = 0
    /\ indices = <<>> /\ x0 = <<>>

NoSelection == [ok |-> FALSE, selected |-> {}]

\* no selection has been run on its own
NoSelectionRun == selJ = <<>> /\ selOut = NoSelection

----------------------------------------------------------------------------
(* The caller builds constraints and a World from them *)

\* nothing built, nothing called
Fresh ==
    /\ heap = [b \in Bodies |-> Body(0, 0, 0)]
    /\ rcs = <<>> /\ fcs = <<>> /\ call = NoCall /\ thrown = NoError
    /\ NoWorld /\ wpc = "idle" /\ pre = heap /\ sets = 0 /\ SolverIdle

SetupInit == Fresh /\ NoSelectionRun

\* new RotConstraint(bodyA, anchorA, bodyB, anchorB), pushed on the caller's array
NewRotConstraint(a, b) ==
    /\ call.op # "World" /\ Len(rcs) < MaxRot
    /\ call' = [op |-> "RotConstraint", a |-> a, b |-> b]
    /\ IF RotCtorThrows(a, b)
       THEN thrown' = PlainError("self") /\ rcs' = rcs
       ELSE thrown' = NoError /\ rcs' = Append(rcs, RotConstraint(a, Origin, b, Origin))
    /\ UNCHANGED <<heap, fcs, worldVars, wpc, pre, sets, selectVars, solverVars>>

\* rc.bodyB = body: bodyB is a public field of a constraint already built
SetBodyB(k, b) ==
    /\ call.op # "World" /\ k \in 1..Len(rcs) /\ rcs[k].bodyB # b
    /\ call' = [op |-> "setBodyB", a |-> k, b |-> b]
    /\ thrown' = NoError
    /\ rcs' = [rcs EXCEPT ![k].bodyB = b]
    /\ UNCHANGED <<heap, fcs, worldVars, wpc, pre, sets, selectVars, solverVars>>

\* new FixedConstraint(body), pushed on the caller's array
NewFixedConstraint(b) ==
    /\ call.op # "World" /\ Len(fcs) < MaxFix
    /\ call' = [op |-> "FixedConstraint", a |-> b, b |-> b]
    /\ thrown' = NoError
    /\ fcs' = Append(fcs, FixedConstraint(heap, b))
    /\ UNCHANGED <<heap, rcs, worldVars, wpc, pre, sets, selectVars, solverVars>>

\* new World(rcs, fcs)
NewWorld ==
    /\ call.op # "World"
    /\ call' = [op |-> "World", a |-> Len(rcs), b |-> Len(fcs)]
    /\ LET w == WorldCtor(rcs, fcs)
       IN IF Len(w.errors) > 0
          THEN /\ thrown' = WorldSetupError(w.errors)
               /\ UNCHANGED worldVars
          ELSE /\ thrown' = NoError
               /\ built' = TRUE
               /\ bodies' = w.bodies
               /\ bodiesLst' = w.bodies
               /\ dof' = w.dof
               /\ x0' = w.x0
               /\ indices' = <<>>
    /\ UNCHANGED <<heap, rcs, fcs, wpc, pre, sets, selectVars, solverVars>>

SetupNext ==
    \/ \E a \in Bodies, b \in Bodies : NewRotConstraint(a, b)
    \/ \E k \in 1..MaxRot, b \in Bodies : SetBodyB(k, b)
    \/ \E b \in Bodies : NewFixedConstraint(b)
    \/ NewWorld

SpecSetup == SetupInit /\ [][SetupNext]_vars

----------------------------------------------------------------------------
(* Solver *)

\* f(x) as the Solver evaluates it
F(fid, xVec) == Residual(fid, indices, x0, xVec)

\* this.diff.jacobian(f, x)
SolverJ(fid, xVec) == Jacobian(fid, indices, x0, xVec)

\* SolverSolution.success / timeOut / maxIterReached
SolutionSuccess(xv) == [x |-> xv, solved |-> TRUE, msg |-> "Solution achived"]

SolutionTimeOut(xv) ==
    [x |-> xv, solved |-> FALSE, msg |-> "No solution found. Solver timed out"]

SolutionMaxIterReached(xv) ==
    [x |-> xv, solved |-> FALSE,
     msg |-> "No solution found. Max number of iteratios reached"]

\* Solver.selectIndices: every result the random choice can give
selectIndices(fid, xVec) ==
    UNION {SolverSelect(J, SortedRows(J), 1, {}) : J \in {SolverJ(fid, xVec)}}

\* a step that may move any slot of x
NewtonResultsAnySlot(xVec, y, free) ==
    {nx \in [DOMAIN xVec -> Vals] : IsZero(y) => nx = xVec}

\* the vectors a Newton step can leave in x: only the slots in free move, and
\* nothing moves when y is zero
NewtonResults(xVec, y, free) ==
    {nx \in [DOMAIN xVec -> Vals] :
        /\ \A j \in 0..(Size(xVec) - 1) : j \notin free => Get(nx, j) = Get(xVec, j)
        /\ IsZero(y) => nx = xVec}

\* Date.now() read again one iteration later
Later == {t \in {now, now + 1} : t <= MaxTimeOut}

\* an exception leaves Solver.solve, and World.solve when it is the caller
Throw(err) ==
    /\ pc' = "threw"
    /\ thrown' = err
    /\ wpc' = "idle"

Running == pc \notin {"idle", "returned", "threw"}

\* the caller hands a function and a vector to a new Solver
SolverCall(fid, xv, mi, to) ==
    /\ pc = "idle"
    /\ call' = [op |-> "Solver.solve", a |-> Size(xv), b |-> Size(F(fid, xv))]
    /\ thrown' = NoError
    /\ f' = fid /\ x' = xv /\ argX' = xv /\ xInit' = xv /\ aliased' = TRUE
    /\ maxIterations' = mi /\ timeOut' = to
    /\ error' = Infinity /\ iter' = 0 /\ now' = 0 /\ selIndices' = <<>>
    /\ sol' = NoSolution /\ jacobians' = FALSE /\ updates' = 0
    /\ pc' = "solve"
    /\ UNCHANGED <<heap, rcs, fcs, worldVars, wpc, pre, sets, selectVars>>

LoopVars == <<f, argX, xInit, maxIterations, timeOut>>

\* a dispatch that sends n < m to the underdetermined loop
DispatchNeverThrows(n, m) == IF n = m THEN "det" ELSE "und"

\* Solver.solve: the branch taken for n = x.size()[0] and m = f(x).size()[0]
Dispatch(n, m) == IF n = m THEN "det" ELSE IF n > m THEN "und" ELSE "throw"

\* Solver.solve, n === m
SolveDetermined ==
    /\ pc = "solve" /\ Dispatch(Size(x), Size(F(f, x))) = "det"
    /\ pc' = "det" /\ error' = Infinity /\ iter' = 0 /\ now' = 0
    /\ UNCHANGED <<callerVars, worldVars, wpc, pre, sets, selectVars, LoopVars, x, aliased,
                   selIndices, sol, jacobians, updates>>

\* Solver.solve, n > m
SolveUnderdetermined ==
    /\ pc = "solve" /\ Dispatch(Size(x), Size(F(f, x))) = "und"
    /\ pc' = "und" /\ error' = Infinity /\ iter' = 0 /\ now' = 0
    /\ selIndices' = <<>>
    /\ UNCHANGED <<callerVars, worldVars, wpc, pre, sets, selectVars, LoopVars, x, aliased,
                   sol, jacobians, updates>>

\* Solver.solve, n < m
SolveOverdetermined ==
    /\ pc = "solve" /\ Dispatch(Size(x), Size(F(f, x))) = "throw"
    /\ Throw(PlainError("Unable to solve. System has more equations than variables"))
    /\ UNCHANGED <<heap, rcs, fcs, call, worldVars, pre, sets, selectVars, LoopVars, x, aliased,
                   error, iter, now, selIndices, sol, jacobians, updates>>

Return(s) ==
    /\ pc' = "returned" /\ sol' = s
    /\ UNCHANGED <<callerVars, worldVars, wpc, pre, sets, selectVars, LoopVars, x, aliased, error,
                   iter, now, selIndices, jacobians, updates>>

\* solveDetermined: the loop condition fails
DetSuccess == pc = "det" /\ error < StopError /\ Return(SolutionSuccess(x))

\* solveDetermined: iter >= this.maxIterations at the top of an iteration
DetMaxIter ==
    /\ pc = "det" /\ error >= StopError /\ iter >= maxIterations
    /\ Return(SolutionMaxIterReached(x))

\* solveDetermined: the time is up at the top of an iteration
DetTimeOut ==
    /\ pc = "det" /\ error >= StopError /\ iter < maxIterations /\ now >= timeOut
    /\ Return(SolutionTimeOut(x))

DetIterates == pc = "det" /\ error >= StopError /\ iter < maxIterations /\ now < timeOut

\* solveDetermined: inv(J) throws
DetInvThrows ==
    /\ DetIterates
    /\ \E J \in {SolverJ(f, x)} : InvThrows(J, UpTo(Size(x)))
    /\ jacobians' = TRUE
    /\ Throw(PlainError("Cannot calculate inverse, determinant is zero"))
    /\ UNCHANGED <<heap, rcs, fcs, call, worldVars, pre, sets, selectVars, LoopVars, x, aliased,
                   error, iter, now, selIndices, sol, updates>>

\* solveDetermined: one Newton update, x = add(x, h)
DetUpdate ==
    /\ DetIterates
    /\ \E J \in {SolverJ(f, x)} : ~InvThrows(J, UpTo(Size(x)))
    /\ \E nx \in NewtonResults(x, F(f, x), 0..(Size(x) - 1)) :
          /\ x' = nx
          /\ error' = MaxAbs(F(f, nx))
    /\ aliased' = FALSE
    /\ iter' = iter + 1 /\ updates' = updates + 1 /\ jacobians' = TRUE
    /\ now' \in Later
    /\ UNCHANGED <<callerVars, worldVars, wpc, pre, sets, selectVars, LoopVars, pc, selIndices, sol>>

\* solveUnderdetermined: the loop condition fails
UndSuccess == pc = "und" /\ error < StopError /\ Return(SolutionSuccess(x))

UndIterates == pc = "und" /\ error >= StopError

\* iter += 1 in a loop that no budget stops: past IterCap only iter % 10 is
\* kept, which is all the loop still reads of it (iter >= maxIterations
\* stays true, IterCap - 9 being at least MaxIter)
NextIter(i) == IF i < IterCap THEN i + 1 ELSE i - 9

NextUpdates(u) == IF u < IterCap THEN u + 1 ELSE u

\* a loop that selects anew at the top of every iteration
TopSelectionsEveryIteration == selectIndices(f, x)

\* the selection an iteration works with: recomputed every 10 iterations
TopSelections ==
    IF iter % 10 = 0 THEN selectIndices(f, x)
    ELSE {[ok |-> TRUE, selected |-> SeqRange(selIndices)]}

\* solveUnderdetermined: selectIndices throws, at the top of the iteration or
\* in the handler of a failed inversion
UndSelectThrows ==
    /\ UndIterates
    /\ \E s \in TopSelections, J \in {SolverJ(f, x)} :
          \/ ~s.ok
          \/ /\ s.ok
             /\ InvThrows(J, SortedSeq(s.selected))
             /\ \E s2 \in selectIndices(f, x) : ~s2.ok
    /\ jacobians' = TRUE
    /\ Throw(PlainError("Unale to find enough independent variables to solve the system."))
    /\ UNCHANGED <<heap, rcs, fcs, call, worldVars, pre, sets, selectVars, LoopVars, x, aliased,
                   error, iter, now, selIndices, sol, updates>>

\* solveUnderdetermined: inv(smallJ) throws, the handler selects again, continue
UndInvFails ==
    /\ UndIterates
    /\ \E s \in TopSelections, J \in {SolverJ(f, x)} :
          /\ s.ok
          /\ InvThrows(J, SortedSeq(s.selected))
          /\ \E s2 \in selectIndices(f, x) :
                s2.ok /\ selIndices' = SortedSeq(s2.selected)
    /\ jacobians' = TRUE
    /\ now' \in Later
    /\ UNCHANGED <<callerVars, worldVars, wpc, pre, sets, selectVars, LoopVars, x, aliased, error,
                   iter, pc, sol, updates>>

\* solveUnderdetermined: one Newton update of the selected slots, written
\* into x in place; the budget checks above it build a Solution and drop it
UndUpdate ==
    /\ UndIterates
    /\ \E s \in TopSelections, J \in {SolverJ(f, x)} :
          /\ s.ok
          /\ ~InvThrows(J, SortedSeq(s.selected))
          /\ selIndices' = SortedSeq(s.selected)
          /\ \E nx \in NewtonResults(x, F(f, x), s.selected) :
                /\ x' = nx /\ argX' = (IF aliased THEN nx ELSE argX)
                /\ error' = MaxAbs(F(f, nx))
    /\ iter' = NextIter(iter) /\ updates' = NextUpdates(updates) /\ jacobians' = TRUE
    /\ now' \in Later
    /\ UNCHANGED <<callerVars, worldVars, wpc, pre, sets, selectVars, f, xInit, maxIterations,
                   timeOut, aliased, pc, sol>>

\* the steps of solveDetermined
DetStep ==
    \/ SolveDetermined
    \/ DetSuccess \/ DetMaxIter \/ DetTimeOut \/ DetInvThrows \/ DetUpdate

\* the steps of a call of Solver.solve
SolverStep ==
    \/ DetStep
    \/ SolveUnderdetermined \/ SolveOverdetermined
    \/ UndSuccess \/ UndSelectThrows \/ UndInvFails \/ UndUpdate

SolverNext ==
    \/ \E fid \in Fns, mi \in 0..MaxIter, to \in 1..MaxTimeOut :
          \E n \in Lengths(fid) : \E xv \in Starts(n) : SolverCall(fid, xv, mi, to)
    \/ SolveDetermined \/ SolveUnderdetermined \/ SolveOverdetermined
    \/ DetSuccess \/ DetMaxIter \/ DetTimeOut \/ DetInvThrows \/ DetUpdate
    \/ UndSuccess \/ UndSelectThrows \/ UndInvFails \/ UndUpdate

\* one Solver, one call of solve
SpecSolver == SetupInit /\ [][SolverNext]_vars

\* solve is synchronous code: once called it runs until it returns or throws
FairSolver == SpecSolver /\ WF_vars(SolverStep)

----------------------------------------------------------------------------
(* The selection of variables, run on a Jacobian of its own *)

\* abs(sign(J)): the heuristics read of J only which entries are zero
SignMatrices ==
    UNION {UNION {[1..m -> [1..n -> {0, 1}]] : m \in 1..n} : n \in 1..MaxDim}

SelectInit == Fresh /\ selJ \in SignMatrices /\ selOut = NoSelection

\* World.selectSolverVariableIndices(J)
WorldSelects ==
    /\ call = NoCall
    /\ call' = [op |-> "World.select", a |-> Size(Get(selJ, 0)), b |-> Size(selJ)]
    /\ selOut' = selectSolverVariableIndices(selJ)
    /\ thrown' = IF selOut'.ok THEN NoError
                 ELSE UnableToSolveError(
                    "Unale to find enough independent variables to solve the system")
    /\ UNCHANGED <<heap, rcs, fcs, worldVars, wpc, pre, sets, solverVars, selJ>>

\* Solver.selectIndices, given the Jacobian it computes
SolverSelects ==
    /\ call = NoCall
    /\ call' = [op |-> "Solver.select", a |-> Size(Get(selJ, 0)), b |-> Size(selJ)]
    /\ selOut' \in SolverSelect(selJ, SortedRows(selJ), 1, {})
    /\ thrown' = IF selOut'.ok THEN NoError
                 ELSE PlainError(
                    "Unale to find enough independent variables to solve the system.")
    /\ UNCHANGED <<heap, rcs, fcs, worldVars, wpc, pre, sets, solverVars, selJ>>

SelectNext == WorldSelects \/ SolverSelects

SpecSelect == SelectInit /\ [][SelectNext]_vars

----------------------------------------------------------------------------
(* World.solve *)

SolveReady == built /\ wpc = "idle" /\ ~Running /\ Len(rcs) + Len(fcs) > 0

\* the part of World.solve up to the selection of the variables to solve
SelectionFrom(li) ==
    [li |-> li,
     sel |-> selectSolverVariableIndices(Jacobian("world", li.ind, li.x0, li.x0))]

Selection == SelectionFrom(loadInitialX0AndIndices(heap, bodies, x0))

SelectionThrew(s) ==
    /\ ~s.sel.ok
    /\ indices' = s.li.ind /\ x0' = s.li.x0

\* World.solve: selectSolverVariableIndices throws; no Solver is called
SolveSelectionThrows ==
    /\ SolveReady
    /\ SelectionThrew(Selection)
    /\ call' = [op |-> "solve", a |-> 0, b |-> 0]
    /\ pre' = heap
    /\ thrown' = UnableToSolveError(
                    "Unale to find enough independent variables to solve the system")
    /\ NoSolverCall
    /\ UNCHANGED <<heap, rcs, fcs, built, bodies, bodiesLst, dof, wpc, sets, selectVars>>

\* the rearranged x0 and the vector handed to the solver
Rearranged(nl, n) ==
    /\ indices' = nl.ind /\ x0' = nl.x0
    /\ x' = Subset(nl.x0, n) /\ argX' = Subset(nl.x0, n) /\ xInit' = Subset(nl.x0, n)

Selected(s) ==
    /\ s.sel.ok
    /\ Rearranged(loadIndicesDictAndGetX0(heap, bodiesLst, s.li.ind, s.sel.selected),
                  3 * Len(bodiesLst) - dof)

\* World.solve up to the call of solver.solve(this.f, solverX)
SolveCallsSolver ==
    /\ SolveReady
    /\ Selected(Selection)
    /\ call' = [op |-> "solve", a |-> 0, b |-> 0]
    /\ pre' = heap
    /\ thrown' = NoError
    /\ wpc' = "solving"
    /\ f' = "world" /\ aliased' = TRUE
    /\ maxIterations' \in 0..MaxIter /\ timeOut' = MaxTimeOut
    /\ error' = Infinity /\ iter' = 0 /\ now' = 0 /\ selIndices' = <<>>
    /\ sol' = NoSolution /\ jacobians' = FALSE /\ updates' = 0
    /\ pc' = "solve"
    /\ UNCHANGED <<heap, rcs, fcs, built, bodies, bodiesLst, dof, sets, selectVars>>

\* the Solver's call is over: World.solve keeps sol and nothing else of it
SolverReleased ==
    /\ f' = "none" /\ x' = <<>> /\ argX' = <<>> /\ xInit' = <<>> /\ aliased' = FALSE
    /\ error' = Infinity /\ iter' = 0 /\ now' = 0 /\ selIndices' = <<>>
    /\ maxIterations' = 0 /\ timeOut' = 0
    /\ UNCHANGED <<pc, sol, jacobians, updates>>

\* a failure path that writes the bodies before it throws
SolveFailsAfterUpdatingBodies ==
    /\ wpc = "solving" /\ pc = "returned" /\ ~sol.solved
    /\ heap' = UpdateBodies(heap, sol.x, indices, bodiesLst)
    /\ thrown' = UnableToSolveError(sol.msg)
    /\ wpc' = "idle"
    /\ SolverReleased
    /\ UNCHANGED <<rcs, fcs, call, worldVars, pre, sets, selectVars>>

\* World.solve: the Solution is not solved
SolveFails ==
    /\ wpc = "solving" /\ pc = "returned" /\ ~sol.solved
    /\ thrown' = UnableToSolveError(sol.msg)
    /\ wpc' = "idle"
    /\ SolverReleased
    /\ UNCHANGED <<heap, rcs, fcs, call, worldVars, pre, sets, selectVars>>

\* World.solve: the Solution is solved, every body is written from it
SolveSucceeds ==
    /\ wpc = "solving" /\ pc = "returned" /\ sol.solved
    /\ heap' = UpdateBodies(heap, sol.x, indices, bodiesLst)
    /\ wpc' = "idle"
    /\ SolverReleased
    /\ UNCHANGED <<rcs, fcs, call, thrown, worldVars, pre, sets, selectVars>>

\* body.x = v (or y, theta): the pose fields are public; what an earlier
\* solve returned or threw is no longer held by the caller
SetPose(b, fld, v) ==
    /\ built /\ wpc = "idle" /\ ~Running /\ sets < MaxSets
    /\ b \in SeqRange(bodiesLst) /\ heap[b][fld] # v
    /\ heap' = [heap EXCEPT ![b][fld] = v]
    /\ pre' = heap'
    /\ sets' = sets + 1
    /\ call' = [op |-> "setPose", a |-> b, b |-> v]
    /\ thrown' = NoError
    /\ NoSolverCall
    /\ UNCHANGED <<rcs, fcs, worldVars, wpc, selectVars>>

----------------------------------------------------------------------------
(* Worlds the solve specification starts from *)

Anchor10 == <<1, 0>>

\* the poses of src/test.ts: A = (0, 0, a quarter turn), B = (2, 1, 0)
TestPoses ==
    [b \in Bodies |-> IF b = 1 THEN Body(0, 0, 1)
                      ELSE IF b = 2 THEN Body(2, 1, 0) ELSE Body(0, 0, 0)]

Joint == RotConstraint(1, Anchor10, 2, Origin)

Pin == RotConstraint(1, Origin, 2, Origin)

Scenarios ==
    {[rot |-> <<>>, fix |-> <<1>>],
     [rot |-> <<Joint>>, fix |-> <<>>],
     [rot |-> <<Joint, Joint>>, fix |-> <<>>],
     [rot |-> <<Pin, Pin, Pin>>, fix |-> <<>>]}

FixedOf(h, bs) == [i \in 1..Len(bs) |-> FixedConstraint(h, bs[i])]

Init ==
    /\ heap = TestPoses
    /\ \E sc \in Scenarios :
          /\ rcs = sc.rot
          /\ fcs = FixedOf(heap, sc.fix)
          /\ LET w == WorldCtor(rcs, fcs)
             IN /\ Len(w.errors) = 0
                /\ built = TRUE
                /\ bodies = w.bodies /\ bodiesLst = w.bodies
                /\ dof = w.dof /\ x0 = w.x0 /\ indices = <<>>
    /\ call = [op |-> "World", a |-> Len(rcs), b |-> Len(fcs)]
    /\ thrown = NoError
    /\ wpc = "idle" /\ pre = heap /\ sets = 0 /\ SolverIdle /\ NoSelectionRun

Next ==
    \/ SolveCallsSolver
    \/ SolveSelectionThrows
    \/ SolveFails
    \/ SolveSucceeds
    \/ \E b \in Bodies, fld \in {"x", "y", "theta"}, v \in Vals : SetPose(b, fld, v)
    \/ SolveDetermined
    \/ DetSuccess \/ DetMaxIter \/ DetTimeOut \/ DetInvThrows \/ DetUpdate

Spec == Init /\ [][Next]_vars

----------------------------------------------------------------------------
(* Claims about construction, checked under SpecSetup *)

RefBodies ==
    {rcs[i].bodyA : i \in 1..Len(rcs)} \cup {rcs[i].bodyB : i \in 1..Len(rcs)}
        \cup {fcs[i].body : i \in 1..Len(fcs)}

ClaimDof == 3 * Cardinality(RefBodies) - 2 * Len(rcs) - 3 * Len(fcs)

IsSelfRef(rc) == rc.bodyA = rc.bodyB

SelfRefs == {i \in 1..Len(rcs) : IsSelfRef(rcs[i])}

RECURSIVE SelfMsgsOf(_)
SelfMsgsOf(rs) ==
    IF rs = <<>> THEN <<>>
    ELSE (IF IsSelfRef(Head(rs)) THEN <<SelfMsg(Head(rs).bodyA)>> ELSE <<>>)
             \o SelfMsgsOf(Tail(rs))

ExpectedErrors ==
    SelfMsgsOf(rcs) \o (IF ClaimDof < 0 THEN <<OverMsg(ClaimDof)>> ELSE <<>>)

\* C1: World construction computes dof = 3*b - 2*r - 3*f over the distinct body
\* ids referenced; dof < 0 always ends in a WorldSetupError (reporting that
\* dof) and in no other error; dof >= 0 without a self-referencing rotational
\* constraint always succeeds, and the World holds that dof.
C1_DofContract ==
    call.op = "World" =>
        /\ ClaimDof < 0 =>
              /\ thrown.name = "WorldSetupError" /\ ~built
              /\ thrown.errors[Len(thrown.errors)] = OverMsg(ClaimDof)
        /\ (ClaimDof >= 0 /\ SelfRefs = {}) =>
              thrown = NoError /\ built /\ dof = ClaimDof

C1_Witness ==
    /\ call.op = "World" /\ Len(fcs) = 2 /\ Len(rcs) = 1 /\ SelfRefs = {}
    /\ Cardinality(RefBodies) = 2 /\ thrown.name = "WorldSetupError"

\* C2 as stated: a rotational constraint between a body and itself is built
\* without an error at construction time.
C2_Original ==
    (call.op = "RotConstraint" /\ call.a = call.b) => thrown.name = "none"

\* C2 as amended: constructing a rotational constraint between a body and
\* itself throws an Error at construction time and adds no constraint; a
\* constraint that references one body twice when the World is built (bodyB
\* is a public field) is accumulated there and reported in a WorldSetupError.
C2_RejectedAtConstruction ==
    /\ [][\A a \in Bodies :
            NewRotConstraint(a, a) => (thrown'.name = "Error" /\ rcs' = rcs)]_vars
    /\ [](call.op = "World" =>
            \A i \in SelfRefs :
                /\ thrown.name = "WorldSetupError"
                /\ \E j \in 1..Len(thrown.errors) :
                       thrown.errors[j] = SelfMsg(rcs[i].bodyA))

C2_Witness ==
    call.op = "RotConstraint" /\ call.a = call.b /\ thrown.name = "Error"

\* C3: construction never stops at the first problem: the one WorldSetupError
\* carries one self-reference message per self-referencing rotational
\* constraint, in constraint order, followed by the over-constrained message
\* exactly when dof < 0; it is thrown exactly when that list is not empty.
C3_AllErrorsAccumulated ==
    call.op = "World" =>
        /\ thrown.name \in {"none", "WorldSetupError"}
        /\ thrown.name = "WorldSetupError" <=> ExpectedErrors # <<>>
        /\ thrown.errors = ExpectedErrors

C3_Witness ==
    /\ call.op = "World" /\ Cardinality(SelfRefs) = 2 /\ ClaimDof < 0
    /\ thrown.name = "WorldSetupError" /\ Len(thrown.errors) = 3

----------------------------------------------------------------------------
(* Claims about World.solve, checked under Spec *)

RECURSIVE RotResidualsAt(_, _)
RotResidualsAt(h, rs) ==
    IF rs = <<>> THEN <<>>
    ELSE LET rc == Head(rs)
             a == h[rc.bodyA]
             b == h[rc.bodyB]
         IN RotF(rc, a.x, a.y, a.theta, b.x, b.y, b.theta) \o RotResidualsAt(h, Tail(rs))

RECURSIVE FixResidualsAt(_, _)
FixResidualsAt(h, fs) ==
    IF fs = <<>> THEN <<>>
    ELSE LET p == h[Head(fs).body]
         IN FixF(Head(fs), p.x, p.y, p.theta) \o FixResidualsAt(h, Tail(fs))

\* every constraint's residual at the poses h holds for the bodies
ResidualAt(h) == RotResidualsAt(h, rcs) \o FixResidualsAt(h, fcs)

Converged(h) == \A i \in 1..Len(ResidualAt(h)) : Abs(ResidualAt(h)[i]) < StopError

\* World.solve has returned or thrown
WorldSolveEnded == call.op = "solve" /\ wpc = "idle"

SolveReturnedNormally == WorldSolveEnded /\ pc = "returned" /\ sol.solved

\* C4: whenever World.solve returns normally, the residual evaluated at the
\* poses now stored in the bodies has 2r + 3f components and the largest
\* absolute value among them is below stopError.
C4_ResidualAtBodies ==
    SolveReturnedNormally =>
        /\ thrown = NoError
        /\ Len(ResidualAt(heap)) = 2 * Len(rcs) + 3 * Len(fcs)
        /\ Converged(heap)

C4_Witness ==
    /\ SolveReturnedNormally /\ rcs = <<Joint>>
    /\ ~Converged(pre) /\ heap # pre /\ updates >= 1

\* C5: when the Solver returns a Solution that is not solved (max iterations
\* or timeout), World.solve throws UnableToSolveError with that Solution's
\* message and every body has the pose it had before the call; when the
\* selection of the variables throws, World.solve also ends in an
\* UnableToSolveError with every body as before the call.
C5_FailureLeavesBodies ==
    WorldSolveEnded =>
        /\ (pc = "returned" /\ ~sol.solved) =>
              /\ sol.msg \in {SolutionMaxIterReached(sol.x).msg, SolutionTimeOut(sol.x).msg}
              /\ thrown = UnableToSolveError(sol.msg)
              /\ heap = pre
        /\ pc = "idle" =>
              /\ thrown.name = "UnableToSolveError"
              /\ heap = pre

C5_Witness ==
    /\ WorldSolveEnded /\ pc = "returned" /\ ~sol.solved
    /\ updates >= 1 /\ sol.x # Subset(x0, Size(sol.x))
    /\ thrown.name = "UnableToSolveError"

\* C9 as stated: when the selection of the variables finds a row with no
\* eligible column in World.solve, the error that reaches the caller is not
\* an UnableToSolveError, the kind raised for a Solution that did not converge.
C9_Original ==
    (WorldSolveEnded /\ pc = "idle") => thrown.name # "UnableToSolveError"

\* C10 as stated: when the bodies already satisfy max(|residual|) < stopError
\* as World.solve is called, the call succeeds and leaves every pose unchanged.
C10_Original ==
    (WorldSolveEnded /\ Converged(pre)) => (thrown = NoError /\ heap = pre)

----------------------------------------------------------------------------
(* Claims about Solver.solve, checked under SpecSolver and FairSolver *)

\* C6 as stated: a call of Solver.solve with n >= m eventually returns a
\* Solution (success, max iterations reached or timed out); it neither runs
\* forever nor ends in any other way.
C6_Original ==
    (pc = "solve" /\ call.a >= call.b) ~> (pc = "returned")

\* C7 as stated: in both paths the budgets are checked at the top of every
\* iteration before x is updated, so no call applies more than maxIterations
\* Newton updates and no iteration runs once iter >= maxIterations.
C7_Original ==
    call.op = "Solver.solve" => (updates <= maxIterations /\ iter <= maxIterations)

\* C8: Solver.solve runs the determined loop only for n = m and the
\* underdetermined loop only for n > m; for n < m it throws an Error at once:
\* no Jacobian has been computed, no iteration has run, x is the vector that
\* was passed in and no Solution exists. For n >= m nothing is thrown before
\* a Jacobian has been computed.
C8_Dispatch ==
    call.op = "Solver.solve" =>
        /\ pc = "det" => call.a = call.b
        /\ pc = "und" => call.a > call.b
        /\ (call.a < call.b /\ pc # "solve") =>
              /\ pc = "threw" /\ thrown.name = "Error"
              /\ ~jacobians /\ iter = 0 /\ updates = 0
              /\ x = argX /\ sol = NoSolution
        /\ (call.a >= call.b /\ pc = "threw") => jacobians

C8_Witness ==
    call.op = "Solver.solve" /\ pc = "threw" /\ call.a < call.b /\ thrown.name = "Error"


\* the slots in which two vectors of one length agree
SameSlots(va, vb) == {j \in 0..(Size(va) - 1) : Get(va, j) = Get(vb, j)}

\* a step of the underdetermined loop that applies a Newton update: the only
\* one that changes iter
UpdateStep == pc = "und" /\ pc' = "und" /\ iter' # iter

\* a step of the underdetermined loop that ends in the handler of a failed
\* inversion and goes round again
RetryStep == pc = "und" /\ pc' = "und" /\ iter' = iter

UndReturnedSuccess ==
    call.op = "Solver.solve" /\ call.a > call.b /\ pc = "returned" /\ sol.solved

\* C11 as stated: when Solver.solve returns a success Solution for n > m, at
\* least n - m components of the returned vector equal the components the
\* initial vector had, whatever the iterations and recomputed partitions.
C11_Original ==
    UndReturnedSuccess => Cardinality(SameSlots(sol.x, xInit)) >= call.a - call.b

\* C11 as amended: every single Newton update of the underdetermined loop
\* works with a partition of exactly m distinct free slots and changes x in
\* those slots only; the other n - m components keep the value they had
\* before that update (not the value they had when solve was called).
C11_UpdateMovesSelected ==
    [][UpdateStep =>
          /\ Cardinality(SeqRange(selIndices')) = call.b
          /\ Len(selIndices') = call.b
          /\ \A j \in 0..(Size(x) - 1) :
                Get(x', j) # Get(x, j) => j \in SeqRange(selIndices')]_vars

C11_Witness ==
    /\ UndReturnedSuccess /\ updates >= 2
    /\ Cardinality(SameSlots(sol.x, xInit)) < call.a - call.b


----------------------------------------------------------------------------
(* Claims about the residual function, checked under SpecSetup *)

\* the slots and x0 World.solve loads before it first evaluates World.f
InitialLayout == loadInitialX0AndIndices(heap, bodies, x0)

\* state vectors of length k: slot j holds j + 1, but for one slot that holds
\* any value of the grid
StateVectors(k) ==
    {[j \in 1..k |-> IF j = i THEN v ELSE j] : i \in 0..k, v \in Vals}

\* the pose World.f reads for every body at xVec
PosesRead(ind, x0v, xVec) ==
    [b \in SeqRange(bodiesLst) |-> getBodyPosition(ind, x0v, xVec, b)]

ResidualLayoutAt(li, xVec) ==
    /\ Len(WorldF(rcs, fcs, li.ind, li.x0, xVec)) = 2 * Len(rcs) + 3 * Len(fcs)
    /\ WorldF(rcs, fcs, li.ind, li.x0, xVec) = ResidualAt(PosesRead(li.ind, li.x0, xVec))

\* C12: for every state vector World.f returns a vector of length exactly
\* 2 * nRotational + 3 * nFixed: the (x, y) residual pairs of the rotational
\* constraints in constraint order, then the (x, y, theta) residual triples of
\* the fixed constraints in constraint order.
C12_ResidualLayout ==
    built => \A xVec \in StateVectors(3 * Len(bodiesLst)) :
                 ResidualLayoutAt(InitialLayout, xVec)

C12_Witness ==
    /\ built /\ Len(rcs) >= 1 /\ Len(fcs) >= 1
    /\ \E xVec \in StateVectors(3 * Len(bodiesLst)) :
          /\ ResidualLayoutAt(InitialLayout, xVec)
          /\ WorldF(rcs, fcs, InitialLayout.ind, InitialLayout.x0, xVec)[2 * Len(rcs) + 3] # 0


----------------------------------------------------------------------------
(* Claims about the slots of World.solve, checked under Spec *)

Fields == <<"x", "y", "theta">>

\* the pose scalars of the World: scalar 3i + k is field k of body i of bodiesLst
Scalars == 0..(3 * Len(bodiesLst) - 1)

\* the slot this.indices holds for scalar g
SlotOf(g) == indices[bodiesLst[(g \div 3) + 1]][Fields[(g % 3) + 1]]

\* the length of the vector World.solve hands to the solver
SolverN == 3 * Len(bodiesLst) - dof

FreeScalars == {g \in Scalars : SlotOf(g) < SolverN}

Before(S, g) == Cardinality({k \in S : k < g})

\* World.solve got past the selection and called the solver
SolverWasCalled == call.op = "solve" /\ pc # "idle"

\* C13 as stated: body i of the body list keeps the slots 3i, 3i+1, 3i+2
\* throughout the World's life, whatever variables are free or fixed.
C13_Original ==
    (built /\ indices # <<>>) => \A g \in Scalars : SlotOf(g) = g

\* C13 as amended: the slots 3i, 3i+1, 3i+2 hold only until the variables are
\* selected (and are what remains when the selection throws). Once the solver
\* is called, the free scalars hold the slots 0..n-1 and the fixed scalars the
\* slots 3b, 3b+1, ..., both in body and field order, and World.f evaluated at
\* the solver's x is the residual of the poses made of x at the free slots and
\* of the bodies' own values at the fixed ones.
C13_SlotsFollowSelection ==
    /\ (call.op = "solve" /\ pc = "idle") => \A g \in Scalars : SlotOf(g) = g
    /\ SolverWasCalled =>
          /\ Cardinality(FreeScalars) = SolverN
          /\ \A g \in Scalars :
                SlotOf(g) = IF g \in FreeScalars THEN Before(FreeScalars, g)
                            ELSE 3 * Len(bodiesLst) + Before(Scalars \ FreeScalars, g)
          /\ wpc = "solving" =>
                F("world", x) = ResidualAt(UpdateBodies(heap, x, indices, bodiesLst))

C13_Witness ==
    /\ SolverWasCalled /\ wpc = "solving" /\ updates >= 1
    /\ \E g \in Scalars : g \notin FreeScalars /\ SlotOf(g) # g
    /\ x # xInit


----------------------------------------------------------------------------
(* Claims about the selection of variables, checked under SpecSelect *)

SelectionRan == call.op \in {"World.select", "Solver.select"}

\* rows k, k+1, ... of J can each be given a column of cols of their own in
\* which they are not zero
RECURSIVE Matchable(_, _, _)
Matchable(J, k, cols) ==
    IF k >= Size(J) THEN TRUE
    ELSE \E j \in cols : Get(Get(J, k), j) # 0 /\ Matchable(J, k + 1, cols \ {j})

AllColumns(J) == 0..(Size(Get(J, 0)) - 1)

\* order lists every row once, by ascending number of nonzero entries
AscendingRows(J, order) ==
    /\ Len(order) = Size(J)
    /\ SeqRange(order) = 0..(Size(J) - 1)
    /\ \A p, q \in 1..Len(order) : p < q => RowSum(J, order[p]) <= RowSum(J, order[q])

\* C14: the selection processes the rows in ascending order of their number
\* of nonzero Jacobian entries, and when it succeeds it returns one column per
\* row: as many pairwise distinct columns as there are rows, which can be
\* given to the rows so that every row is nonzero in its column.
C14_OneColumnPerRow ==
    SelectionRan =>
        /\ AscendingRows(selJ, SortedRows(selJ))
        /\ selOut.ok =>
              /\ selOut.selected \subseteq AllColumns(selJ)
              /\ Cardinality(selOut.selected) = Size(selJ)
              /\ Matchable(selJ, 0, selOut.selected)

C14_Witness ==
    /\ SelectionRan /\ selOut.ok /\ Size(selJ) = 3
    /\ RowSum(selJ, 0) > RowSum(selJ, 2) /\ 0 \in selOut.selected


\* C15 as stated: the selection raises its "not enough independent variables"
\* error only when no assignment of pairwise distinct columns to all rows
\* with a nonzero entry at each (row, column) exists; whenever one exists the
\* selection finds one.
C15_Original ==
    (SelectionRan /\ Matchable(selJ, 0, AllColumns(selJ))) => selOut.ok


\* C16 as stated: the selection is deterministic: on a given Jacobian both
\* World.selectSolverVariableIndices and Solver.selectIndices return one and
\* the same set of free columns, each row taking the lowest-index column that
\* is nonzero in the row and not yet claimed.
C16_Original ==
    SelectionRan =>
        /\ selOut.ok = WorldSelect(selJ, SortedRows(selJ), 1, {}).ok
        /\ selOut.selected = WorldSelect(selJ, SortedRows(selJ), 1, {}).selected


----------------------------------------------------------------------------
(* Claims about the partition of the underdetermined loop, under SpecSolver *)

\* sel is a partition selectIndices can return at the current x
FreshSelection(sel) == [ok |-> TRUE, selected |-> SeqRange(sel)] \in selectIndices(f, x)

----------------------------------------------------------------------------
(* Claims about repeated calls of World.solve, checked under Spec *)

\* what World.solve computes before it calls the solver, from the loaded
\* slots and x0 li: the selection and, when there is one, the rearranged
\* slots, the new x0 and the vector for the solver
SolveEntry(li) ==
    LET s == SelectionFrom(li).sel
        nl == loadIndicesDictAndGetX0(heap, bodiesLst, li.ind, s.selected)
    IN [sel |-> s,
        ind |-> IF s.ok THEN nl.ind ELSE li.ind,
        x0 |-> IF s.ok THEN nl.x0 ELSE Subset(li.x0, 3 * Len(bodiesLst)),
        solverX |-> IF s.ok THEN Subset(nl.x0, SolverN) ELSE <<>>]

\* the load of this World as it is, and of a World just constructed from the
\* same constraints
LoadedNow == loadInitialX0AndIndices(heap, bodies, x0)

LoadedFresh == loadInitialX0AndIndices(heap, bodies, WorldCtor(rcs, fcs).x0)

\* C18: World.solve can be called again after a successful solve, a failed
\* solve or a change of a body's pose: each call loads the slots and the
\* state vector from the bodies' current poses, so what it selects and hands
\* to the solver is what the first solve of a newly constructed World with
\* those poses selects and hands to the solver.
C18_SolveFromLivePoses ==
    SolveReady =>
        /\ LoadedNow.ind = LoadedFresh.ind
        /\ \A k \in 1..Len(bodiesLst) :
              /\ Get(LoadedNow.x0, 3 * (k - 1)) = heap[bodiesLst[k]].x
              /\ Get(LoadedNow.x0, 3 * (k - 1) + 1) = heap[bodiesLst[k]].y
              /\ Get(LoadedNow.x0, 3 * (k - 1) + 2) = heap[bodiesLst[k]].theta
        /\ SolveEntry(LoadedNow) = SolveEntry(LoadedFresh)

\* a later call is running: the bodies were written by an earlier solve, and
\* the x0 that earlier solve left behind was not the loaded one
C18_Witness ==
    /\ wpc = "solving" /\ sets = 0 /\ heap # TestPoses /\ pre = heap
    /\ updates >= 1 /\ Size(x0) > 3 * Len(bodiesLst)


----------------------------------------------------------------------------
(* Claims about the caller's vector, checked under SpecSolver *)

\* C19 as stated: Solver.solve never modifies the vector object the caller
\* passed in: once the call has returned or thrown, on the determined and on
\* the underdetermined path, every component of that object holds the value
\* it had before the call.
C19_Original ==
    (call.op = "Solver.solve" /\ pc \in {"returned", "threw"}) => argX = xInit


----------------------------------------------------------------------------
(* Claims about the partition and the write-back of World.solve, under Spec *)

\* pose scalar g as the poses h hold it
ScalarAt(h, g) == h[bodiesLst[(g \div 3) + 1]][Fields[(g % 3) + 1]]

\* the scalars the selection picks at the poses the call was entered with
ExpectedFree ==
    SelectionFrom(loadInitialX0AndIndices(pre, bodies, WorldCtor(rcs, fcs).x0)).sel.selected

NRows == 2 * Len(rcs) + 3 * Len(fcs)

\* C20: in World.solve every one of the 3 * nBodies pose scalars gets a slot
\* of its own; exactly the 2r + 3f selected scalars are free and hold the
\* slots 0..2r+3f-1 of the vector handed to the solver, the other dof scalars
\* are held fixed; the bodies are written only as the last step of a
\* successful solve, after which every scalar that is not free has its
\* pre-solve value and every free scalar the solution's entry at its slot.
C20_PartitionAndWriteBack ==
    /\ [](SolverWasCalled =>
            /\ \A g, k \in Scalars : g # k => SlotOf(g) # SlotOf(k)
            /\ FreeScalars = ExpectedFree
            /\ Cardinality(FreeScalars) = NRows
            /\ {SlotOf(g) : g \in FreeScalars} = 0..(NRows - 1)
            /\ Cardinality(Scalars \ FreeScalars) = dof
            /\ wpc = "solving" => (heap = pre /\ Size(x) = NRows)
            /\ ~SolveReturnedNormally => heap = pre
            /\ SolveReturnedNormally =>
                  \A g \in Scalars :
                      ScalarAt(heap, g) = IF g \in FreeScalars
                                          THEN Get(sol.x, SlotOf(g))
                                          ELSE ScalarAt(pre, g))
    /\ [][heap' # heap =>
            \/ call'.op = "setPose"
            \/ wpc = "solving" /\ pc = "returned" /\ sol.solved /\ wpc' = "idle"]_vars

C20_Witness ==
    /\ SolveReturnedNormally /\ dof = 4
    /\ \E g \in FreeScalars : ScalarAt(heap, g) # ScalarAt(pre, g)
    /\ \E g \in Scalars \ FreeScalars : ScalarAt(pre, g) # 0

====
